---- MODULE Spec2Model ----
(***************************************************************************)
(* Model of platform_support.py: cross-platform helpers for generator      *)
(* scripts.  Strings are sequences of one-character strings, so that       *)
(* str.lower(), str.endswith() and concatenation are computed and not      *)
(* assumed.  The host (platform flag, interpreter path, environment,       *)
(* search path, filesystem) is the state the six functions read or change. *)
(***************************************************************************)
EXTENDS Naturals, Sequences, FiniteSets

VARIABLES
    IS_WINDOWS,     \* the platform flag, os.name == "nt"
    dirUnlinkError, \* the error the host's unlink() reports for a directory
    sysExecutable,  \* sys.executable: None, "" or a path
    environ,        \* os.environ restricted to ADDCHAIN (a function, empty when unset)
    onPath,         \* the commands shutil.which resolves
    fs,             \* filesystem: path -> "absent" | "file" | "dir"
    locked,         \* entries whose removal the host refuses (permission denied)
    name,           \* the argument of exe_name / shared_lib_name
    fn,             \* the function called last
    pc,             \* "idle", or "delete_files" while its loop runs
    paths,          \* delete_files' argument tuple
    idx,            \* delete_files' loop position (1-based)
    target,         \* delete_file's argument in the last invocation
    unlinkResult,   \* what target.unlink() did in the last delete_file
    processed,      \* the paths delete_file was invoked on by the last call, in order
    candidates,     \* addchain_executable's candidate list
    outcome,        \* "ok" or the name of the exception the caller sees
    ret             \* the value returned (a tagged value)

vars == <<IS_WINDOWS, dirUnlinkError, sysExecutable, environ, onPath, fs, locked,
          name, fn, pc, paths, idx, target, unlinkResult, processed, candidates,
          outcome, ret>>

hostVars == <<IS_WINDOWS, dirUnlinkError, sysExecutable, environ, onPath, locked, name>>

----------------------------------------------------------------------------
(* Bounds *)

\* longest prefix put in front of a suffix-like tail to build a name
MaxPrefix == 2
\* longest argument tuple of delete_files
MaxPaths == 2
\* most entries of the filesystem the host refuses to remove
MaxLocked == 1

----------------------------------------------------------------------------
(* Strings *)

LowerOf == [A |-> "a", C |-> "c", D |-> "d", E |-> "e", L |-> "l",
            O |-> "o", S |-> "s", X |-> "x"]

UpperOf == [a |-> "A", c |-> "C", d |-> "D", e |-> "E", l |-> "L",
            o |-> "O", s |-> "S", x |-> "X"]

LowerChar(c) == IF c \in DOMAIN LowerOf THEN LowerOf[c] ELSE c

UpperChar(c) == IF c \in DOMAIN UpperOf THEN UpperOf[c] ELSE c

\* str.lower()
lower(s) == [i \in 1..Len(s) |-> LowerChar(s[i])]

\* str.endswith(suffix)
endswith(s, suffix) ==
    /\ Len(suffix) <= Len(s)
    /\ SubSeq(s, Len(s) - Len(suffix) + 1, Len(s)) = suffix

DotExe == <<".", "e", "x", "e">>
DotDll == <<".", "d", "l", "l">>
DotSo == <<".", "s", "o">>
Empty == <<>>

\* tagged values: a Python str, a one-element list of str, or None
Str(s) == [kind |-> "str", val |-> s]
List1(s) == [kind |-> "list", val |-> s]
None == [kind |-> "None", val |-> <<>>]

\* Python truthiness of a tagged value
Truthy(v) == v.kind # "None" /\ Len(v.val) > 0

----------------------------------------------------------------------------
(* exe_name / shared_lib_name *)

exe_suffix == IF IS_WINDOWS THEN DotExe ELSE Empty

shared_lib_suffix == IF IS_WINDOWS THEN DotDll ELSE DotSo

\* mutant: the suffix test without lower()
exe_name_case_sensitive(n) ==
    LET suffix == exe_suffix
    IN IF endswith(n, suffix) THEN n ELSE n \o suffix

exe_name(n) ==
    LET suffix == exe_suffix
        lname == lower(n)
    IN IF endswith(lname, suffix) THEN n ELSE n \o suffix

\* mutant: the lowered name is what gets the suffix
shared_lib_name_lowered(n) ==
    LET suffix == shared_lib_suffix
        lname == lower(n)
    IN IF endswith(lname, suffix) THEN n ELSE lname \o suffix

shared_lib_name(n) ==
    LET suffix == shared_lib_suffix
        lname == lower(n)
    IN IF endswith(lname, suffix) THEN n ELSE n \o suffix

----------------------------------------------------------------------------
(* Filesystem *)

PathUniverse == {<<"a">>, <<"a", "c">>, <<"a", "d">>, <<"b">>}

Kinds == {"absent", "file", "dir"}

Parent(p) == SubSeq(p, 1, Len(p) - 1)

\* q lies strictly beneath p
IsUnder(q, p) == Len(q) > Len(p) /\ SubSeq(q, 1, Len(p)) = p

InTree(q, p) == q = p \/ IsUnder(q, p)

\* every existing entry below the top level sits in an existing directory
WellFormed(f) ==
    \A p \in PathUniverse :
        (f[p] # "absent" /\ Len(p) > 1) => f[Parent(p)] = "dir"

HasFileAncestor(f, p) ==
    \E q \in PathUniverse : IsUnder(p, q) /\ f[q] = "file"

\* Path.unlink(): "ok" or the exception it raises.  A missing path whose
\* prefix is a regular file is ENOTDIR on POSIX and "path not found" on
\* Windows; a directory is EISDIR on Linux and EPERM / access denied elsewhere.
unlink_result(f, p) ==
    CASE f[p] = "absent" ->
            IF HasFileAncestor(f, p) /\ ~IS_WINDOWS
            THEN "NotADirectoryError"
            ELSE "FileNotFoundError"
      [] f[p] = "file" ->
            IF p \in locked THEN "PermissionError" ELSE "ok"
      [] f[p] = "dir" ->
            IF p \in locked THEN "PermissionError" ELSE dirUnlinkError

\* an entry shutil.rmtree cannot remove: refused itself, or still holding
\* an entry that was refused
Survives(f, q) ==
    \E d \in PathUniverse : InTree(d, q) /\ f[d] # "absent" /\ d \in locked

\* shutil.rmtree(target, ignore_errors=True): removes what it can, silently
rmtree(f, p) ==
    [q \in PathUniverse |->
        IF InTree(q, p) /\ ~Survives(f, q) THEN "absent" ELSE f[q]]

\* mutant: except OSError
Swallowed_any(err) == err # "ok"

\* the except clauses of delete_file
Swallowed(err) == err \in {"FileNotFoundError", "IsADirectoryError"}

\* what the caller of delete_file(p) sees
delete_file_outcome(f, p) ==
    LET r == unlink_result(f, p)
    IN IF r = "ok" \/ Swallowed(r) THEN "ok" ELSE r

\* mutant: the recursive removal is given the parent directory
delete_file_fs_parent(f, p) ==
    LET r == unlink_result(f, p)
    IN CASE r = "ok" -> [f EXCEPT ![p] = "absent"]
         [] r = "IsADirectoryError" -> rmtree(f, Parent(p))
         [] OTHER -> f

\* the filesystem delete_file(p) leaves
delete_file_fs(f, p) ==
    LET r == unlink_result(f, p)
    IN CASE r = "ok" -> [f EXCEPT ![p] = "absent"]
         [] r = "IsADirectoryError" -> rmtree(f, p)
         [] OTHER -> f

----------------------------------------------------------------------------
(* Search path, environment, interpreter *)

Addchain == <<"a", "d", "d", "c", "h", "a", "i", "n">>
SizeTool == <<"s", "i", "z", "e">>
LlvmSizeTool == <<"l", "l", "v", "m", "-", "s", "i", "z", "e">>
BinDir == <<"/", "b", "/">>
InterpreterPath == <<"/", "b", "/", "p", "y">>
Python == <<"p", "y", "t", "h", "o", "n">>
Python3 == <<"p", "y", "t", "h", "o", "n", "3">>

\* shutil.which(cmd): the resolved path, or None
which(cmd) == IF cmd \in onPath THEN Str(BinDir \o cmd) ELSE None

\* os.environ.get(key, default)
environ_get(key, default) ==
    IF key \in DOMAIN environ THEN environ[key] ELSE default

\* mutant: sys.executable is tested against None only
python_cmd_not_none ==
    IF sysExecutable.kind # "None" THEN sysExecutable
    ELSE IF IS_WINDOWS THEN Str(Python) ELSE Str(Python3)

python_cmd ==
    IF Truthy(sysExecutable) THEN sysExecutable
    ELSE IF IS_WINDOWS THEN Str(Python) ELSE Str(Python3)

\* mutant: the ".exe" test without lower()
addchain_candidates_no_lower ==
    LET configured == environ_get("ADDCHAIN", Addchain)
    IN <<configured>> \o
       (IF IS_WINDOWS /\ ~endswith(configured, DotExe)
        THEN <<configured \o DotExe>> ELSE <<>>)

addchain_candidates ==
    LET configured == environ_get("ADDCHAIN", Addchain)
    IN <<configured>> \o
       (IF IS_WINDOWS /\ ~endswith(lower(configured), DotExe)
        THEN <<configured \o DotExe>> ELSE <<>>)

\* the for loop over candidates: the first truthy which(), else None
RECURSIVE first_found(_)
first_found(cands) ==
    IF cands = <<>> THEN None
    ELSE LET found == which(Head(cands))
         IN IF Truthy(found) THEN found ELSE first_found(Tail(cands))

\* mutant: llvm-size is probed first
size_tools_llvm_first == <<LlvmSizeTool, SizeTool>>

size_tools == <<SizeTool, LlvmSizeTool>>

find_size_tool ==
    LET found == first_found(size_tools)
    IN IF Truthy(found) THEN List1(<<found.val>>) ELSE None

----------------------------------------------------------------------------
(* Inputs and hosts explored *)

RECURSIVE Strings(_, _)
\* every string over chars of length at most n
Strings(chars, n) ==
    IF n = 0 THEN {<<>>}
    ELSE LET shorter == Strings(chars, n - 1)
         IN shorter \cup {Append(s, c) : s \in shorter, c \in chars}

\* s in every mix of upper and lower case
CaseVariants(s) ==
    {[i \in 1..Len(s) |-> IF i \in U THEN UpperChar(s[i]) ELSE s[i]] :
        U \in SUBSET (1..Len(s))}

Tails ==
    CaseVariants(DotExe) \cup CaseVariants(DotDll) \cup CaseVariants(DotSo)
    \cup {<<>>, <<"e", "x", "e">>, <<".", "e", "x">>, <<".", "e", "x", "e", "c">>,
          <<"d", "l", "l">>, <<".", "s">>, <<"s", "o">>}

NameInputs == {p \o t : p \in Strings({"a", "X", "."}, MaxPrefix), t \in Tails}

AddchainValues == {Empty, <<"a", "c">>, <<"a", "c", ".", "E", "X", "E">>}

EmptyEnv == [k \in {} |-> Empty]

Environs == {EmptyEnv} \cup {[k \in {"ADDCHAIN"} |-> v] : v \in AddchainValues}

\* the command names that may resolve on the search path (the empty
\* command never does)
Resolvable ==
    {SizeTool, LlvmSizeTool, Addchain, Addchain \o DotExe, DotExe,
     <<"a", "c">>, <<"a", "c", ".", "e", "x", "e">>, <<"a", "c", ".", "E", "X", "E">>}

SysExecutables == {None, Str(Empty), Str(InterpreterPath)}

NoFiles == [p \in PathUniverse |-> "absent"]

Present(f) == {p \in PathUniverse : f[p] # "absent"}

DirUnlinkErrors ==
    IF IS_WINDOWS THEN {"PermissionError"}
    ELSE {"IsADirectoryError", "PermissionError"}

InitCall ==
    /\ fn = "none"
    /\ pc = "idle"
    /\ paths = <<>>
    /\ idx = 0
    /\ target = <<>>
    /\ unlinkResult = "none"
    /\ processed = <<>>
    /\ candidates = <<>>
    /\ outcome = "ok"
    /\ ret = None

\* every filesystem, on every kind of host
Init ==
    /\ IS_WINDOWS \in BOOLEAN
    /\ dirUnlinkError \in DirUnlinkErrors
    /\ sysExecutable = Str(InterpreterPath)
    /\ environ = EmptyEnv
    /\ onPath = {Addchain, LlvmSizeTool}
    /\ fs \in {f \in [PathUniverse -> Kinds] : WellFormed(f)}
    /\ locked \in {l \in SUBSET Present(fs) : Cardinality(l) <= MaxLocked}
    /\ name = Addchain
    /\ InitCall

\* every name, on both kinds of host
InitNames ==
    /\ IS_WINDOWS \in BOOLEAN
    /\ dirUnlinkError = "PermissionError"
    /\ sysExecutable = Str(InterpreterPath)
    /\ environ = EmptyEnv
    /\ onPath = {}
    /\ fs = NoFiles
    /\ locked = {}
    /\ name \in NameInputs
    /\ InitCall

\* every environment, search path and interpreter, on both kinds of host
InitTools ==
    /\ IS_WINDOWS \in BOOLEAN
    /\ dirUnlinkError = "PermissionError"
    /\ sysExecutable \in SysExecutables
    /\ environ \in Environs
    /\ onPath \in SUBSET Resolvable
    /\ fs = NoFiles
    /\ locked = {}
    /\ name = Addchain
    /\ InitCall

----------------------------------------------------------------------------
(* The six functions *)

NoDelete ==
    /\ paths' = <<>>
    /\ idx' = 0
    /\ target' = <<>>
    /\ unlinkResult' = "none"
    /\ processed' = <<>>
    /\ UNCHANGED <<fs, pc>>

ExeName ==
    /\ pc = "idle"
    /\ fn' = "exe_name"
    /\ ret' = Str(exe_name(name))
    /\ outcome' = "ok"
    /\ candidates' = <<>>
    /\ NoDelete
    /\ UNCHANGED hostVars

SharedLibName ==
    /\ pc = "idle"
    /\ fn' = "shared_lib_name"
    /\ ret' = Str(shared_lib_name(name))
    /\ outcome' = "ok"
    /\ candidates' = <<>>
    /\ NoDelete
    /\ UNCHANGED hostVars

DeleteFile ==
    \E p \in PathUniverse :
        /\ pc = "idle"
        /\ fn' = "delete_file"
        /\ target' = p
        /\ unlinkResult' = unlink_result(fs, p)
        /\ fs' = delete_file_fs(fs, p)
        /\ outcome' = delete_file_outcome(fs, p)
        /\ processed' = <<p>>
        /\ ret' = None
        /\ paths' = <<>>
        /\ idx' = 0
        /\ candidates' = <<>>
        /\ UNCHANGED pc
        /\ UNCHANGED hostVars

PathTuples == UNION {[1..n -> PathUniverse] : n \in 0..MaxPaths}

\* delete_files(*paths) is entered
DeleteFilesCall ==
    \E ps \in PathTuples :
        /\ pc = "idle"
        /\ pc' = "delete_files"
        /\ fn' = "delete_files"
        /\ paths' = ps
        /\ idx' = 1
        /\ target' = <<>>
        /\ unlinkResult' = "none"
        /\ processed' = <<>>
        /\ outcome' = "running"
        /\ ret' = None
        /\ candidates' = <<>>
        /\ UNCHANGED fs
        /\ UNCHANGED hostVars

\* one turn of delete_files' loop: delete_file(path), or the return
DeleteFilesStep ==
    /\ pc = "delete_files"
    /\ IF idx > Len(paths)
       THEN /\ pc' = "idle"
            /\ outcome' = "ok"
            /\ UNCHANGED <<fs, idx, target, unlinkResult, processed>>
       ELSE LET p == paths[idx]
                raised == delete_file_outcome(fs, p)
            IN /\ target' = p
               /\ unlinkResult' = unlink_result(fs, p)
               /\ fs' = delete_file_fs(fs, p)
               /\ processed' = Append(processed, p)
               /\ IF raised = "ok"
                  THEN /\ idx' = idx + 1
                       /\ UNCHANGED <<pc, outcome>>
                  ELSE /\ pc' = "idle"
                       /\ outcome' = raised
                       /\ UNCHANGED idx
    /\ UNCHANGED <<fn, paths, candidates, ret>>
    /\ UNCHANGED hostVars

PythonCmd ==
    /\ pc = "idle"
    /\ fn' = "python_cmd"
    /\ ret' = python_cmd
    /\ outcome' = "ok"
    /\ candidates' = <<>>
    /\ NoDelete
    /\ UNCHANGED hostVars

AddchainExecutable ==
    /\ pc = "idle"
    /\ fn' = "addchain_executable"
    /\ candidates' = addchain_candidates
    /\ LET found == first_found(addchain_candidates)
       IN /\ ret' = found
          /\ outcome' = IF Truthy(found) THEN "ok" ELSE "FileNotFoundError"
    /\ NoDelete
    /\ UNCHANGED hostVars

FindSizeTool ==
    /\ pc = "idle"
    /\ fn' = "find_size_tool"
    /\ ret' = find_size_tool
    /\ outcome' = "ok"
    /\ candidates' = <<>>
    /\ NoDelete
    /\ UNCHANGED hostVars

Next ==
    \/ ExeName
    \/ SharedLibName
    \/ DeleteFile
    \/ DeleteFilesCall
    \/ DeleteFilesStep
    \/ PythonCmd
    \/ AddchainExecutable
    \/ FindSizeTool

NextNames == ExeName \/ SharedLibName

NextTools == PythonCmd \/ AddchainExecutable \/ FindSizeTool

\* the whole module over every filesystem
Spec == Init /\ [][Next]_vars

\* the name helpers over every input name
SpecNames == InitNames /\ [][NextNames]_vars

\* the tool lookups over every environment and search path
SpecTools == InitTools /\ [][NextTools]_vars

----------------------------------------------------------------------------
(* Properties *)

\* s ends with suffix in some mix of upper and lower case
EndsWithAnyCase(s, suffix) == \E v \in CaseVariants(suffix) : endswith(s, v)

ExeSuffixOfHost == IF IS_WINDOWS THEN <<".", "e", "x", "e">> ELSE <<>>

LibSuffixOfHost == IF IS_WINDOWS THEN <<".", "d", "l", "l">> ELSE <<".", "s", "o">>

\* C1: a name that already ends, in any case, with the platform suffix is
\* returned unchanged by exe_name / shared_lib_name; on a POSIX host
\* exe_name returns every name, the empty one included, unchanged.
C1_SuffixedNameUnchanged ==
    /\ (fn = "exe_name" /\ EndsWithAnyCase(name, ExeSuffixOfHost))
          => (ret.kind = "str" /\ ret.val = name)
    /\ (fn = "shared_lib_name" /\ EndsWithAnyCase(name, LibSuffixOfHost))
          => (ret.kind = "str" /\ ret.val = name)
    /\ (fn = "exe_name" /\ ~IS_WINDOWS) => ret.val = name

C1_Witness ==
    /\ fn = "exe_name"
    /\ IS_WINDOWS
    /\ name = <<"a", ".", "E", "x", "E">>
    /\ ret.val = name

\* C2: a name that does not end, in any case, with the platform suffix gets
\* exactly the lower-case suffix appended, and applying the function to its
\* own result changes nothing.
C2_AppendsSuffixIdempotent ==
    /\ (fn = "exe_name" /\ ~EndsWithAnyCase(name, ExeSuffixOfHost))
          => ret.val = name \o ExeSuffixOfHost
    /\ (fn = "shared_lib_name" /\ ~EndsWithAnyCase(name, LibSuffixOfHost))
          => ret.val = name \o LibSuffixOfHost
    /\ fn = "exe_name" => exe_name(ret.val) = ret.val
    /\ fn = "shared_lib_name" => shared_lib_name(ret.val) = ret.val

C2_Witness ==
    /\ fn = "shared_lib_name"
    /\ ~IS_WINDOWS
    /\ name = <<"X", ".", "D", "l", "L">>
    /\ ret.val = <<"X", ".", "D", "l", "L", ".", "s", "o">>

\* this step is an invocation of delete_file(p), called directly or by
\* delete_files' loop
Invoked(p) ==
    \/ pc = "idle" /\ fn' = "delete_file" /\ target' = p
    \/ pc = "delete_files" /\ idx <= Len(paths) /\ paths[idx] = p

\* the invocation of this step raised nothing
ReturnedNormally == outcome' \in {"ok", "running"}

\* C3: delete_file on a path that does not exist returns normally and
\* leaves the filesystem unchanged.
C3_AbsentPathSilent ==
    [][\A p \in PathUniverse :
          (Invoked(p) /\ fs[p] = "absent") => (ReturnedNormally /\ fs' = fs)]_vars

\* C4: delete_file on a directory (one the host lets be removed) never
\* raises, whatever error unlink reports for a directory, and removes the
\* directory with all of its contents that can be removed.
C4_DirectoryRemovedSilently ==
    [][\A p \in PathUniverse :
          (Invoked(p) /\ fs[p] = "dir" /\ p \notin locked) =>
              /\ ReturnedNormally
              /\ \A q \in PathUniverse :
                    (InTree(q, p) /\ ~Survives(fs, q)) => fs'[q] = "absent"]_vars

\* C5: an unlink failure that is neither "not found" nor "is a directory"
\* reaches the caller unchanged, with the filesystem as it was (no target
\* removed, no recursive removal).
C5_OtherErrorsPropagate ==
    [][\A p \in PathUniverse :
          (/\ Invoked(p)
           /\ unlinkResult' \notin {"ok", "FileNotFoundError", "IsADirectoryError"})
          => (outcome' = unlinkResult' /\ pc' = "idle" /\ fs' = fs)]_vars

C5_Witness ==
    /\ fn = "delete_file"
    /\ unlinkResult = "PermissionError"
    /\ outcome = "PermissionError"
    /\ fs[target] = "file"

\* C6: delete_files handles its paths in argument order; an absent path or
\* a directory (one the host lets be removed) never stops the sequence; the first error raised stops it,
\* is what the caller sees, and leaves the later paths untouched; without
\* an error every path is handled exactly once.
C6_InOrderStopsOnlyOnError ==
    /\ fn = "delete_files" =>
          /\ Len(processed) <= Len(paths)
          /\ processed = SubSeq(paths, 1, Len(processed))
    /\ (fn = "delete_files" /\ pc = "idle" /\ outcome = "ok") => processed = paths
    /\ (fn = "delete_files" /\ pc = "idle" /\ outcome # "ok") =>
          /\ Len(processed) >= 1
          /\ target = paths[Len(processed)]
          /\ outcome = unlinkResult
          /\ ~(fs[target] \in {"absent", "dir"} /\ target \notin locked)

\* the part of C6 the code keeps: order, stop at the first error raised,
\* every path once otherwise; only a swallowed error never stops the loop
C6_InOrderStopsAtFirstRaise ==
    /\ fn = "delete_files" =>
          /\ Len(processed) <= Len(paths)
          /\ processed = SubSeq(paths, 1, Len(processed))
    /\ (fn = "delete_files" /\ pc = "delete_files") =>
          /\ outcome = "running"
          /\ idx = Len(processed) + 1
          /\ unlinkResult \in {"none", "ok", "FileNotFoundError", "IsADirectoryError"}
    /\ (fn = "delete_files" /\ pc = "idle" /\ outcome = "ok") => processed = paths
    /\ (fn = "delete_files" /\ pc = "idle" /\ outcome # "ok") =>
          /\ Len(processed) >= 1
          /\ target = paths[Len(processed)]
          /\ outcome = unlinkResult
          /\ unlinkResult \notin {"ok", "FileNotFoundError", "IsADirectoryError"}

\* C7: addchain_executable tries ADDCHAIN's value (or "addchain" when
\* unset), then on Windows only, and only when that value does not end in
\* ".exe" in any case, the value with ".exe" appended; it returns the
\* resolution of the first candidate that resolves and raises
\* FileNotFoundError exactly when none does.
C7_AddchainFirstResolving ==
    fn = "addchain_executable" =>
        LET configured == IF "ADDCHAIN" \in DOMAIN environ
                          THEN environ["ADDCHAIN"] ELSE Addchain
            withExe == IS_WINDOWS /\ ~EndsWithAnyCase(configured, DotExe)
            expected == IF withExe THEN <<configured, configured \o DotExe>>
                        ELSE <<configured>>
            resolving == {i \in 1..Len(expected) : expected[i] \in onPath}
        IN /\ candidates = expected
           /\ IF resolving = {}
              THEN outcome = "FileNotFoundError"
              ELSE LET first == CHOOSE i \in resolving : \A j \in resolving : i <= j
                   IN /\ outcome = "ok"
                      /\ ret.kind = "str"
                      /\ ret.val = BinDir \o expected[first]

C7_Witness ==
    /\ fn = "addchain_executable"
    /\ IS_WINDOWS
    /\ Len(candidates) = 2
    /\ candidates[1] \notin onPath
    /\ outcome = "ok"
    /\ ret.val = BinDir \o candidates[2]

\* C8: find_size_tool returns [path of size] whenever size resolves, [path
\* of llvm-size] only when size does not, and None, never an error,
\* exactly when neither resolves.
C8_SizeToolPreference ==
    fn = "find_size_tool" =>
        /\ outcome = "ok"
        /\ IF SizeTool \in onPath
           THEN ret.kind = "list" /\ ret.val = <<BinDir \o SizeTool>>
           ELSE IF LlvmSizeTool \in onPath
           THEN ret.kind = "list" /\ ret.val = <<BinDir \o LlvmSizeTool>>
           ELSE ret.kind = "None"

C8_Witness ==
    /\ fn = "find_size_tool"
    /\ SizeTool \in onPath
    /\ LlvmSizeTool \in onPath
    /\ ret.kind = "list"
    /\ ret.val = <<BinDir \o SizeTool>>

\* C9: python_cmd never fails and returns a non-empty string: the
\* interpreter's own path when known and non-empty, else "python" on
\* Windows and "python3" on POSIX.
C9_PythonCmdNonEmpty ==
    fn = "python_cmd" =>
        /\ outcome = "ok"
        /\ ret.kind = "str"
        /\ Len(ret.val) > 0
        /\ IF sysExecutable.kind = "str" /\ sysExecutable.val # <<>>
           THEN ret.val = sysExecutable.val
           ELSE ret.val = IF IS_WINDOWS THEN Python ELSE Python3

C9_Witness ==
    /\ fn = "python_cmd"
    /\ sysExecutable.kind = "str"
    /\ sysExecutable.val = <<>>
    /\ IS_WINDOWS
    /\ ret.val = Python

\* C10: delete_file on an existing, removable regular file removes that
\* entry alone and returns normally; no step makes an entry disappear
\* other than the path delete_file is invoked on and what lies beneath it
\* when it is a directory; no function changes the platform flag or the
\* environment.
C10_Frame ==
    [][/\ \A p \in PathUniverse :
             (Invoked(p) /\ fs[p] = "file" /\ p \notin locked) =>
                 (ReturnedNormally /\ fs' = [fs EXCEPT ![p] = "absent"])
       /\ \A q \in PathUniverse :
             (fs[q] # "absent" /\ fs'[q] = "absent") =>
                 \E p \in PathUniverse :
                     /\ Invoked(p)
                     /\ q = p \/ (IsUnder(q, p) /\ fs[p] = "dir")
       /\ \A q \in PathUniverse : fs[q] = "absent" => fs'[q] = "absent"
       /\ IS_WINDOWS' = IS_WINDOWS
       /\ environ' = environ]_vars

C10_Witness ==
    /\ fn = "delete_file"
    /\ unlinkResult = "ok"
    /\ outcome = "ok"
    /\ fs[target] = "absent"
    /\ \E q \in PathUniverse : q # target /\ fs[q] # "absent"

====
